---- MODULE Spec2Model ----
(***************************************************************************)
(* Model of the UART register access protocol of fault-injection-demo:     *)
(* the host-side accessor class UartRegs that gen_uart_regs.py emits       *)
(* (read_regs, write_regs, read_back_missing_out_regs), its frame codec    *)
(* and its bit packing.  The serial transport is an external collaborator: *)
(* it takes bytes and hands bytes (or a timeout) back.                     *)
(***************************************************************************)
EXTENDS Integers, Sequences, FiniteSets, TLC

VARIABLES
    registers,       \* the generated `registers` list (the schema)
    pc,              \* where the host is: "idle", "read_loop" (blocked in
                     \* ser.read), "returned" (the call is over), "exited"
    call,            \* the top-level call in progress or last made
    prev_byte,       \* read_regs local
    receiving_data,  \* read_regs local
    escape_next,     \* read_regs local
    data,            \* read_regs local: the payload accumulated so far
    link,            \* bytes in flight towards the host (serial input buffer)
    rx_log,          \* bytes ser.read(1) has returned in the current read_regs
    device_payload,  \* the payload framed into the response now on the link
    sent,            \* bytes the transport accepted during the current call
    outcome,         \* how the last call ended
    ncalls,          \* number of top-level calls started
    gen,             \* the run of gen_uart_regs.py: arguments, position, files
    sweep            \* the run of run_attack.py: position, acquisition thread

vars == << registers, pc, call, prev_byte, receiving_data, escape_next, data,
           link, rx_log, device_payload, sent, outcome, ncalls, gen, sweep >>

---------------------------------------------------------------------------
(* Bounds of the model *)

\* longest register list drawn
MaxRegs == 2
\* longest byte stream fed to the decoder in SpecDecoder
MaxRx == 5
\* longest payload encoded in SpecCodec
MaxPayload == 4
\* number of top-level calls made on one UartRegs object
MaxCalls == 2
\* rounds of the glitch loop of one sweep point
MaxRounds == 2

---------------------------------------------------------------------------
(* Protocol constants *)

READ_REQ == 10
START_WRITE == 11
END_WRITE == 12
ESCAPE == 13

\* prev_byte = None
NoByte == -1

---------------------------------------------------------------------------
(* Small helpers *)

Min(a, b) == IF a < b THEN a ELSE b
Max(a, b) == IF a > b THEN a ELSE b

RECURSIVE Pow2(_)
\* 1 << n
Pow2(n) == IF n <= 0 THEN 1 ELSE 2 * Pow2(n - 1)

RECURSIVE Zeros(_)
\* "0" * n
Zeros(n) == IF n <= 0 THEN << >> ELSE <<0>> \o Zeros(n - 1)

RECURSIVE SeqsUpTo(_, _)
\* all sequences over S of length 0..n
SeqsUpTo(S, n) ==
    IF n = 0 THEN { << >> }
    ELSE LET shorter == SeqsUpTo(S, n - 1)
         IN  shorter \cup { Append(s, x) : s \in shorter, x \in S }

\* math.ceil(n / 8) * 8
PadTo8(n) == ((n + 7) \div 8) * 8

\* s[:n] for n >= 0
PyHead(s, n) == SubSeq(s, 1, Min(n, Len(s)))

\* s[-n:] for n >= 0; Python reads s[-0:] as s[0:], the whole sequence
PyTail(s, n) == IF n = 0 THEN s ELSE SubSeq(s, Max(1, Len(s) - n + 1), Len(s))

RECURSIVE BinDigits(_)
\* the binary digits of v >= 0, most significant first, no leading zeros
BinDigits(v) == IF v < 2 THEN <<v>> ELSE Append(BinDigits(v \div 2), v % 2)

\* f"{v:0{width}b}" for v >= 0: at least `width` digits, zero-padded on the left
FormatBits(v, width) ==
    LET d == BinDigits(v) IN Zeros(width - Len(d)) \o d

RECURSIVE BitsToInt(_)
\* int(bits, 2)
BitsToInt(bits) ==
    IF bits = << >> THEN 0
    ELSE 2 * BitsToInt(SubSeq(bits, 1, Len(bits) - 1)) + bits[Len(bits)]

RECURSIVE BytesToBits(_)
\* "".join(f"{byte:08b}" for byte in bytes)
BytesToBits(bytes) ==
    IF bytes = << >> THEN << >>
    ELSE FormatBits(Head(bytes), 8) \o BytesToBits(Tail(bytes))

RECURSIVE BitsToBytes(_)
\* [int(bits[i:i + 8], 2) for i in range(0, len(bits), 8)]
BitsToBytes(bits) ==
    IF bits = << >> THEN << >>
    ELSE <<BitsToInt(PyHead(bits, 8))>>
         \o BitsToBytes(SubSeq(bits, 9, Len(bits)))

---------------------------------------------------------------------------
(* Frame codec *)

RECURSIVE EscapeMissing(_)
EscapeMissing(payload) ==
    IF payload = << >> THEN << >>
    ELSE (IF Head(payload) \in {READ_REQ, START_WRITE, END_WRITE}
          THEN <<ESCAPE, Head(payload)>> ELSE <<Head(payload)>>)
         \o EscapeMissing(Tail(payload))

RECURSIVE EscapeAfter(_)
EscapeAfter(payload) ==
    IF payload = << >> THEN << >>
    ELSE (IF Head(payload) \in {READ_REQ, START_WRITE, END_WRITE, ESCAPE}
          THEN <<Head(payload), ESCAPE>> ELSE <<Head(payload)>>)
         \o EscapeAfter(Tail(payload))

RECURSIVE EscapeBytes(_)
\* the body of the encoding loop: ESCAPE before every control-valued byte
EscapeBytes(payload) ==
    IF payload = << >> THEN << >>
    ELSE (IF Head(payload) \in {READ_REQ, START_WRITE, END_WRITE, ESCAPE}
          THEN <<ESCAPE, Head(payload)>> ELSE <<Head(payload)>>)
         \o EscapeBytes(Tail(payload))

\* write_bytes: START_WRITE, the escaped payload, END_WRITE
FrameBytes(payload) == <<START_WRITE>> \o EscapeBytes(payload) \o <<END_WRITE>>

\* the locals of read_regs before its receive loop
DecoderInit ==
    [prev_byte |-> NoByte, receiving_data |-> TRUE, escape_next |-> FALSE,
     data |-> << >>, done |-> FALSE]

DecodeStepEscapeKept(st, byte) ==
    IF byte = START_WRITE /\ st.prev_byte # ESCAPE
    THEN [st EXCEPT !.receiving_data = TRUE, !.prev_byte = byte]
    ELSE IF st.receiving_data
    THEN IF byte = END_WRITE /\ ~st.escape_next
         THEN [st EXCEPT !.receiving_data = FALSE, !.done = TRUE]
         ELSE IF byte # ESCAPE \/ st.escape_next
         THEN [st EXCEPT !.data = Append(st.data, byte),
                         !.escape_next = FALSE, !.prev_byte = byte]
         ELSE [st EXCEPT !.data = Append(st.data, byte),
                         !.escape_next = TRUE, !.prev_byte = byte]
    ELSE [st EXCEPT !.prev_byte = byte]

DecodeStepStartUnescaped(st, byte) ==
    IF byte = START_WRITE
    THEN [st EXCEPT !.receiving_data = TRUE, !.prev_byte = byte]
    ELSE IF st.receiving_data
    THEN IF byte = END_WRITE /\ ~st.escape_next
         THEN [st EXCEPT !.receiving_data = FALSE, !.done = TRUE]
         ELSE IF byte # ESCAPE \/ st.escape_next
         THEN [st EXCEPT !.data = Append(st.data, byte),
                         !.escape_next = FALSE, !.prev_byte = byte]
         ELSE [st EXCEPT !.escape_next = TRUE, !.prev_byte = byte]
    ELSE [st EXCEPT !.prev_byte = byte]

DecodeStepEndUnchecked(st, byte) ==
    IF byte = START_WRITE /\ st.prev_byte # ESCAPE
    THEN [st EXCEPT !.receiving_data = TRUE, !.prev_byte = byte]
    ELSE IF st.receiving_data
    THEN IF byte = END_WRITE
         THEN [st EXCEPT !.receiving_data = FALSE, !.done = TRUE]
         ELSE IF byte # ESCAPE \/ st.escape_next
         THEN [st EXCEPT !.data = Append(st.data, byte),
                         !.escape_next = FALSE, !.prev_byte = byte]
         ELSE [st EXCEPT !.escape_next = TRUE, !.prev_byte = byte]
    ELSE [st EXCEPT !.prev_byte = byte]

\* one iteration of the receive loop of read_regs on a received byte;
\* done = the loop was left by `break`
DecodeStep(st, byte) ==
    IF byte = START_WRITE /\ st.prev_byte # ESCAPE
    THEN [st EXCEPT !.receiving_data = TRUE, !.prev_byte = byte]
    ELSE IF st.receiving_data
    THEN IF byte = END_WRITE /\ ~st.escape_next
         THEN [st EXCEPT !.receiving_data = FALSE, !.done = TRUE]
         ELSE IF byte # ESCAPE \/ st.escape_next
         THEN [st EXCEPT !.data = Append(st.data, byte),
                         !.escape_next = FALSE, !.prev_byte = byte]
         ELSE [st EXCEPT !.escape_next = TRUE, !.prev_byte = byte]
    ELSE [st EXCEPT !.prev_byte = byte]

---------------------------------------------------------------------------
(* Register schema: the generated list of (Name, Mode, Bit Length, Data Type) *)

RegNames == <<"a", "b", "c", "d">>

\* the register shapes drawn: every data type, both modes, widths with and
\* without byte alignment
RegShapes ==
    { [mode |-> "out", length |-> 1, data_type |-> "std_logic"],
      [mode |-> "out", length |-> 8, data_type |-> "std_logic_vector"],
      [mode |-> "out", length |-> 4, data_type |-> "unsigned"],
      [mode |-> "out", length |-> 4, data_type |-> "signed"],
      [mode |-> "in",  length |-> 3, data_type |-> "signed"] }

\* a register list accepted by RegisterAction: unique names, positive lengths,
\* length 1 for std_logic, at least one register
MkSchema(shapes) ==
    [i \in 1..Len(shapes) |->
        [name |-> RegNames[i], mode |-> shapes[i].mode,
         length |-> shapes[i].length, data_type |-> shapes[i].data_type]]

Schemas == { MkSchema(sh) : sh \in SeqsUpTo(RegShapes, MaxRegs) \ { << >> } }

RECURSIVE Reverse(_)
\* reversed(seq)
Reverse(seq) ==
    IF seq = << >> THEN << >>
    ELSE Append(Reverse(Tail(seq)), Head(seq))

RECURSIVE SumLengths(_, _)
\* sum(reg[2] for reg in registers if reg[1] == mode)
SumLengths(regs, mode) ==
    IF regs = << >> THEN 0
    ELSE (IF Head(regs).mode = mode THEN Head(regs).length ELSE 0)
         + SumLengths(Tail(regs), mode)

\* [name for name, mode, _, _ in registers if mode == m]
NamesOf(regs, m) == { regs[i].name : i \in { j \in 1..Len(regs) : regs[j].mode = m } }

AllNames(regs) == { regs[i].name : i \in 1..Len(regs) }

\* expected_bytes of read_regs
ExpectedBytes(regs) ==
    (PadTo8(SumLengths(regs, "in")) + PadTo8(SumLengths(regs, "out"))) \div 8

---------------------------------------------------------------------------
(* Bit packing of the out registers (write_regs) *)

RangeCheckSignedOnly(reg, value) ==
    /\ reg.data_type = "signed"
    /\ (value < -Pow2(reg.length - 1) \/ value >= Pow2(reg.length - 1))

RangeCheckUnsignedOnly(reg, value) ==
    value < 0 \/ value >= Pow2(reg.length)

\* the range check of write_regs: TRUE when ValueError is raised
OutOfRange(reg, value) ==
    IF reg.data_type = "signed"
    THEN value >= Pow2(reg.length - 1) \/ value < -Pow2(reg.length - 1)
    ELSE value < 0 \/ value >= Pow2(reg.length)

\* value_bits: two's complement for negative signed values
ValueBits(reg, value) ==
    IF reg.data_type = "signed" /\ value < 0
    THEN FormatBits(value % Pow2(reg.length), reg.length)
    ELSE FormatBits(value, reg.length)

RECURSIVE PackLoop(_, _)
\* the loop over reversed(registers): the ValueError of the first offending
\* out register, or the concatenated value bits
PackLoop(revregs, values) ==
    IF revregs = << >> THEN [kind |-> "bits", bits |-> << >>]
    ELSE LET reg == Head(revregs) IN
         IF reg.mode # "out" THEN PackLoop(Tail(revregs), values)
         ELSE IF OutOfRange(reg, values[reg.name])
         THEN [kind |-> "ValueError", value |-> values[reg.name],
               name |-> reg.name, length |-> reg.length]
         ELSE LET rest == PackLoop(Tail(revregs), values) IN
              IF rest.kind = "ValueError" THEN rest
              ELSE [kind |-> "bits",
                    bits |-> ValueBits(reg, values[reg.name]) \o rest.bits]

PadBitsFront(bits) == Zeros((8 - (Len(bits) % 8)) % 8) \o bits

\* pad the write data to 8-bit boundaries
PadBits(bits) == bits \o Zeros((8 - (Len(bits) % 8)) % 8)

\* write_data_bits after padding, or the ValueError raised on the way
PackOut(regs, values) ==
    LET r == PackLoop(Reverse(regs), values) IN
    IF r.kind = "ValueError" THEN r
    ELSE [kind |-> "bits", bits |-> PadBits(r.bits)]

---------------------------------------------------------------------------
(* Unpacking of a received payload (read_regs) *)

\* value[start:end + 1]
extract_bits(value, start, end) == SubSeq(value, start + 1, Min(end + 1, Len(value)))

RECURSIVE UnpackLoop(_, _, _, _, _)
\* the loop over reversed(registers) with its two running bit offsets
UnpackLoop(revregs, in_regs, out_regs, start_bit_in, start_bit_out) ==
    IF revregs = << >> THEN << >>
    ELSE LET reg == Head(revregs)
             end_bit == (IF reg.mode = "in" THEN start_bit_in ELSE start_bit_out)
                        + reg.length
             value == IF reg.mode = "in"
                      THEN extract_bits(in_regs, start_bit_in, end_bit - 1)
                      ELSE extract_bits(out_regs, start_bit_out, end_bit - 1)
         IN  (reg.name :> BitsToInt(value))
             @@ UnpackLoop(Tail(revregs), in_regs, out_regs,
                           IF reg.mode = "in" THEN end_bit ELSE start_bit_in,
                           IF reg.mode = "in" THEN start_bit_out ELSE end_bit)

\* out_regs: the bits of the leading bytes of the payload
out_regs_bits(regs, bytes) ==
    LET out_regs_length == PadTo8(SumLengths(regs, "out"))
    IN  PyTail(BytesToBits(PyHead(bytes, out_regs_length \div 8)),
               out_regs_length)

in_regs_leading(regs, bytes) ==
    LET in_regs_length == PadTo8(SumLengths(regs, "in"))
    IN  PyTail(BytesToBits(PyHead(bytes, in_regs_length \div 8)),
               in_regs_length)

\* in_regs: the bits of the trailing bytes of the payload; data[-0:] is all
\* of data
in_regs_bits(regs, bytes) ==
    LET in_regs_length == PadTo8(SumLengths(regs, "in"))
    IN  PyTail(BytesToBits(PyTail(bytes, in_regs_length \div 8)),
               in_regs_length)

\* regs_values of read_regs for a payload of the expected length
Unpack(regs, bytes) ==
    UnpackLoop(Reverse(regs), in_regs_bits(regs, bytes),
               out_regs_bits(regs, bytes), 0, 0)

LengthCheckOff(regs, bytes) ==
    [kind |-> "values", values |-> Unpack(regs, bytes)]

\* read_regs after its receive loop: the length check, then the unpacking
ReadResult(regs, bytes) ==
    IF Len(bytes) # ExpectedBytes(regs)
    THEN [kind |-> "IOError", what |-> "length",
          received |-> Len(bytes), expected |-> ExpectedBytes(regs)]
    ELSE [kind |-> "values", values |-> Unpack(regs, bytes)]

---------------------------------------------------------------------------
(* Inputs drawn by the model *)

\* byte values the link delivers in SpecDecoder and SpecCodec encodes:
\* one plain byte and the four control values
RxBytes == {1, READ_REQ, START_WRITE, END_WRITE, ESCAPE}

\* byte values of the payloads the device answers with in Spec: sign bits
\* set and clear in either nibble, one of them a control value
DevBytes == {13, 176}

\* the values on both sides of every range limit of a register
TestValues(reg) ==
    { -Pow2(reg.length - 1) - 1, -Pow2(reg.length - 1), -1, 0,
      Pow2(reg.length - 1) - 1, Pow2(reg.length - 1),
      Pow2(reg.length) - 1, Pow2(reg.length) }

\* the values drawn for a write that leaves some out register to the read-back
PartialTestValues(reg) == { 0, Pow2(reg.length) }

RECURSIVE ValueDicts(_, _)
\* the dicts over the out registers of regs: a test value for each of them
\* (optional FALSE), or for any subset of them (optional TRUE)
ValueDicts(regs, optional) ==
    IF regs = << >> THEN { << >> }
    ELSE LET reg == Head(regs)
             rest == ValueDicts(Tail(regs), optional)
         IN  IF reg.mode # "out" THEN rest
             ELSE IF optional
             THEN rest \cup { (reg.name :> v) @@ d :
                                v \in PartialTestValues(reg), d \in rest }
             ELSE { (reg.name :> v) @@ d : v \in TestValues(reg), d \in rest }

\* dicts giving every out register a test value
CompleteWrites(regs) == ValueDicts(regs, FALSE)

\* dicts leaving at least one out register out
PartialWrites(regs) ==
    { wv \in ValueDicts(regs, TRUE) : NamesOf(regs, "out") \ DOMAIN wv # {} }

\* names a caller may pass that are no out register: an undeclared one and
\* the in registers
ForeignNames(regs) == {"zz"} \cup NamesOf(regs, "in")

\* dicts that also hold one name that is no out register
ForeignWrites(regs) ==
    { (n :> 0) @@ wv : n \in ForeignNames(regs), wv \in ValueDicts(regs, TRUE) }

\* every dict drawn for a write
WriteChoices(regs) ==
    CompleteWrites(regs) \cup PartialWrites(regs) \cup ForeignWrites(regs)

\* byte values that may reach the input buffer outside of a frame
StrayBytes == {1}

\* payloads a device answers a READ_REQ with: the expected length, one byte
\* short, one byte long
ResponsePayloads(regs) ==
    { p \in SeqsUpTo(DevBytes, ExpectedBytes(regs) + 1) :
        Len(p) >= ExpectedBytes(regs) - 1 }

---------------------------------------------------------------------------
(* read_back_missing_out_regs *)

\* missing_values
MissingValuesAll(regs, write_values) == NamesOf(regs, "out")

MissingValues(regs, write_values) == NamesOf(regs, "out") \ DOMAIN write_values

CallerDictAliased(write_values, complete_write_values) == complete_write_values

\* the caller's dict after the merge: complete_write_values is a copy
\* (write_values.copy()), so filling it leaves the caller's dict as it was
CallerDict(write_values, complete_write_values) == write_values

\* complete_write_values: a copy of write_values with the missing entries
\* filled in from current_values
MergeValues(write_values, missing, current_values) ==
    [n \in DOMAIN write_values \cup missing |->
        IF n \in missing THEN current_values[n] ELSE write_values[n]]

---------------------------------------------------------------------------
(* The state machine *)

NoCall ==
    [op |-> "none", via |-> "api", write_values |-> << >>,
     merged |-> FALSE, complete_write_values |-> << >>]
NoOutcome == [kind |-> "none"]

\* no run of gen_uart_regs.py is looked at: the schema is there
NoGen == [pc |-> "none", args |-> << >>, files |-> {}]

\* no run of run_attack.py is looked at
NoSweep == [pc |-> "none", t1 |-> "none", round |-> 0]

\* a UartRegs object right after its construction
InitEngine ==
    /\ pc = "idle"
    /\ call = NoCall
    /\ prev_byte = NoByte
    /\ receiving_data = FALSE
    /\ escape_next = FALSE
    /\ data = << >>
    /\ link = << >>
    /\ rx_log = << >>
    /\ device_payload = << >>
    /\ sent = << >>
    /\ outcome = NoOutcome
    /\ ncalls = 0

InitCommon ==
    /\ InitEngine
    /\ gen = NoGen
    /\ sweep = NoSweep

\* read_regs up to its receive loop: READ_REQ is written, the locals are set
EnterReadLoop ==
    /\ pc' = "read_loop"
    /\ sent' = <<READ_REQ>>
    /\ prev_byte' = DecoderInit.prev_byte
    /\ receiving_data' = DecoderInit.receiving_data
    /\ escape_next' = DecoderInit.escape_next
    /\ data' = DecoderInit.data
    /\ rx_log' = << >>
    /\ device_payload' = << >>
    /\ outcome' = NoOutcome

\* the counts ser.write(write_bytes) may return for a frame of n bytes
BytesWritten(n) == { n - 1, n }

WriteFrameUnchecked(complete, bytes_written, before) ==
    LET packed == PackOut(registers, complete) IN
    IF packed.kind = "ValueError"
    THEN /\ outcome' = packed
         /\ sent' = before
    ELSE LET write_bytes == FrameBytes(BitsToBytes(packed.bits))
             n == Min(bytes_written, Len(write_bytes))
         IN  /\ sent' = before \o PyHead(write_bytes, n)
             /\ outcome' = [kind |-> "ok"]

\* write_regs from the packing on, for a complete value set: the ValueError
\* of the range check, or the frame handed to the transport and the check of
\* bytes_written
WriteFrame(complete, bytes_written, before) ==
    LET packed == PackOut(registers, complete) IN
    IF packed.kind = "ValueError"
    THEN /\ outcome' = packed
         /\ sent' = before
    ELSE LET write_bytes == FrameBytes(BitsToBytes(packed.bits))
             n == Min(bytes_written, Len(write_bytes))
         IN  /\ sent' = before \o PyHead(write_bytes, n)
             /\ outcome' = IF n # Len(write_bytes)
                           THEN [kind |-> "IOError", what |-> "write",
                                 bytes_written |-> n, expected |-> Len(write_bytes)]
                           ELSE [kind |-> "ok"]

\* the frame length write_regs would send for a value set (0: none)
FrameLen(complete) ==
    LET packed == PackOut(registers, complete) IN
    IF packed.kind = "ValueError" THEN 0
    ELSE Len(FrameBytes(BitsToBytes(packed.bits)))

\* uart_regs.read_regs() called by the user
StartRead ==
    /\ pc = "idle"
    /\ ncalls < MaxCalls
    /\ ncalls' = ncalls + 1
    /\ call' = [NoCall EXCEPT !.op = "read"]
    /\ EnterReadLoop
    /\ UNCHANGED << registers, link >>
    /\ UNCHANGED << gen, sweep >>

\* write_regs(write_values), called from a script (via "api") or from the
\* command line of uart_regs.py (via "cli")
WriteEnter(write_values, via) ==
    /\ pc = "idle"
    /\ call' = [op |-> "write", via |-> via, write_values |-> write_values,
                merged |-> MissingValues(registers, write_values) = {},
                complete_write_values |->
                    IF MissingValues(registers, write_values) = {}
                    THEN write_values ELSE << >>]
    /\ IF MissingValues(registers, write_values) # {}
       THEN /\ EnterReadLoop
            /\ UNCHANGED << registers, link >>
       ELSE /\ \E bytes_written \in BytesWritten(FrameLen(write_values)) :
                 WriteFrame(write_values, bytes_written, << >>)
            /\ pc' = "returned"
            /\ prev_byte' = NoByte
            /\ receiving_data' = FALSE
            /\ escape_next' = FALSE
            /\ data' = << >>
            /\ rx_log' = << >>
            /\ device_payload' = << >>
            /\ UNCHANGED << registers, link >>

\* one of the calls that the model counts
WriteCallVia(write_values, via) ==
    /\ ncalls < MaxCalls
    /\ ncalls' = ncalls + 1
    /\ WriteEnter(write_values, via)

\* uart_regs.write_regs(write_values) called by the user
WriteCall(write_values) == WriteCallVia(write_values, "api")

StartWrite ==
    /\ pc = "idle"
    /\ ncalls < MaxCalls
    /\ \E write_values \in WriteChoices(registers) :
          WriteCall(write_values)
    /\ UNCHANGED << gen, sweep >>

WriteArgsAnyRegister(regs, write_values) ==
    IF DOMAIN write_values = {} THEN "no values"
    ELSE IF \E name \in DOMAIN write_values : name \notin AllNames(regs)
    THEN "not an out-mode register"
    ELSE "ok"

\* WriteAction.__call__: what the parser makes of the values given to -w
WriteArgs(regs, write_values) ==
    IF DOMAIN write_values = {} THEN "no values"
    ELSE IF \E name \in DOMAIN write_values : name \notin NamesOf(regs, "out")
    THEN "not an out-mode register"
    ELSE "ok"

\* python uart_regs.py -w name=value ...: the arguments are parsed, and only
\* then the port is opened and write_regs called; parser.error ends the
\* process
CliWrite ==
    /\ pc = "idle"
    /\ ncalls = 0
    /\ \E write_values \in WriteChoices(registers) :
          IF WriteArgs(registers, write_values) = "ok"
          THEN WriteCallVia(write_values, "cli")
          ELSE /\ pc' = "exited"
               /\ call' = [NoCall EXCEPT !.op = "write", !.via = "cli",
                                         !.write_values = write_values]
               /\ outcome' = [kind |-> "parser_error",
                              what |-> WriteArgs(registers, write_values)]
               /\ UNCHANGED << registers, prev_byte, receiving_data,
                               escape_next, data, link, rx_log,
                               device_payload, sent, ncalls >>
    /\ UNCHANGED << gen, sweep >>

\* one ser.read(1) that returns a byte, and the loop iteration on it; when
\* the loop breaks, the rest of read_regs and of the call that made it
RecvByte ==
    /\ pc = "read_loop"
    /\ link # << >>
    /\ LET byte == Head(link)
           st == DecodeStep([prev_byte |-> prev_byte,
                             receiving_data |-> receiving_data,
                             escape_next |-> escape_next,
                             data |-> data, done |-> FALSE], byte)
       IN  /\ link' = Tail(link)
           /\ rx_log' = Append(rx_log, byte)
           /\ prev_byte' = st.prev_byte
           /\ receiving_data' = st.receiving_data
           /\ escape_next' = st.escape_next
           /\ data' = st.data
           /\ IF ~st.done
              THEN UNCHANGED << pc, outcome, sent, call >>
              ELSE LET res == ReadResult(registers, st.data) IN
                   /\ pc' = "returned"
                   /\ IF call.op = "read" \/ res.kind = "IOError"
                      THEN /\ outcome' = res
                           /\ UNCHANGED << sent, call >>
                      ELSE LET complete ==
                                 MergeValues(call.write_values,
                                     MissingValues(registers, call.write_values),
                                     res.values)
                           IN  /\ call' = [call EXCEPT
                                      !.write_values =
                                          CallerDict(call.write_values, complete),
                                      !.merged = TRUE,
                                      !.complete_write_values = complete]
                               /\ \E bytes_written \in BytesWritten(FrameLen(complete)) :
                                      WriteFrame(complete, bytes_written, sent)
    /\ UNCHANGED << registers, device_payload, ncalls >>
    /\ UNCHANGED << gen, sweep >>

ReadBlocksForever ==
    /\ pc = "read_loop"
    /\ link = << >>
    /\ UNCHANGED vars

ReadTimeoutRaises ==
    /\ pc = "read_loop"
    /\ link = << >>
    /\ pc' = "returned"
    /\ outcome' = [kind |-> "exit", code |-> 1]
    /\ UNCHANGED << registers, call, prev_byte, receiving_data, escape_next,
                    data, link, rx_log, device_payload, sent, ncalls >>
    /\ UNCHANGED << gen, sweep >>

\* self.ser.read(1) returned nothing within the timeout: "Read timed out" is
\* printed and exit(1) ends the process
ReadTimeout ==
    /\ pc = "read_loop"
    /\ link = << >>
    /\ pc' = "exited"
    /\ outcome' = [kind |-> "exit", code |-> 1]
    /\ UNCHANGED << registers, call, prev_byte, receiving_data, escape_next,
                    data, link, rx_log, device_payload, sent, ncalls >>
    /\ UNCHANGED << gen, sweep >>

\* the call has returned or raised: its result goes to the caller and its
\* locals are gone
CallEnds ==
    /\ pc' = "idle"
    /\ call' = NoCall
    /\ prev_byte' = NoByte
    /\ receiving_data' = FALSE
    /\ escape_next' = FALSE
    /\ data' = << >>
    /\ rx_log' = << >>
    /\ device_payload' = << >>
    /\ sent' = << >>
    /\ outcome' = NoOutcome

\* the same UartRegs object takes the next call
Return ==
    /\ pc = "returned"
    /\ call.via = "api"
    /\ ncalls < MaxCalls
    /\ CallEnds
    /\ UNCHANGED << registers, link, ncalls >>
    /\ UNCHANGED << gen, sweep >>

\* the device answers the READ_REQ with one frame, which arrives after
\* whatever the input buffer still holds
DeviceRespond ==
    /\ pc = "read_loop"
    /\ \A i \in 1..Len(link) : link[i] \in StrayBytes
    /\ rx_log = << >>
    /\ \E p \in ResponsePayloads(registers) :
          /\ device_payload' = p
          /\ link' = link \o FrameBytes(p)
    /\ UNCHANGED << registers, pc, call, prev_byte, receiving_data, escape_next,
                    data, rx_log, sent, outcome, ncalls >>
    /\ UNCHANGED << gen, sweep >>

\* a byte arrives after a call has failed with an IOError: no code flushes
\* the input buffer of the port, so the byte waits there for the next read
LateByte ==
    /\ pc = "returned"
    /\ outcome.kind = "IOError"
    /\ ncalls < MaxCalls
    /\ link = << >>
    /\ \E b \in StrayBytes : link' = <<b>>
    /\ UNCHANGED << registers, pc, call, prev_byte, receiving_data, escape_next,
                    data, rx_log, device_payload, sent, outcome, ncalls >>
    /\ UNCHANGED << gen, sweep >>

Init ==
    /\ registers \in Schemas
    /\ InitCommon

Next ==
    \/ StartRead \/ StartWrite \/ CliWrite
    \/ RecvByte \/ ReadTimeout \/ Return \/ DeviceRespond \/ LateByte

Spec == Init /\ [][Next]_vars

---------------------------------------------------------------------------
(* SpecCodec: the frame of the write-side encoder looped back into read_regs *)

OneRegSchemas == { s \in Schemas : Len(s) = 1 }

\* the link carries the frame that the encoder makes of a drawn payload
LoopbackFrame ==
    /\ pc = "read_loop"
    /\ link = << >>
    /\ rx_log = << >>
    /\ \E p \in SeqsUpTo(RxBytes, MaxPayload) :
          /\ device_payload' = p
          /\ link' = FrameBytes(p)
    /\ UNCHANGED << registers, pc, call, prev_byte, receiving_data, escape_next,
                    data, rx_log, sent, outcome, ncalls >>
    /\ UNCHANGED << gen, sweep >>

InitCodec ==
    /\ registers \in OneRegSchemas
    /\ InitCommon

NextCodec == StartRead \/ LoopbackFrame \/ RecvByte \/ ReadTimeout

SpecCodec == InitCodec /\ [][NextCodec]_vars

---------------------------------------------------------------------------
(* SpecDecoder: read_regs on an arbitrary byte stream *)

\* the link delivers any bytes at all
LinkDeliver ==
    /\ pc = "read_loop"
    /\ link = << >>
    /\ rx_log = << >>
    /\ link' \in SeqsUpTo(RxBytes, MaxRx) \ { << >> }
    /\ UNCHANGED << registers, pc, call, prev_byte, receiving_data, escape_next,
                    data, rx_log, device_payload, sent, outcome, ncalls >>
    /\ UNCHANGED << gen, sweep >>

NextDecoder == StartRead \/ LinkDeliver \/ RecvByte \/ ReadTimeout

SpecDecoder == InitCodec /\ [][NextDecoder]_vars

\* byte values of the streams of SpecDecoderFair: a plain one, and the three
\* that start a frame, end it and escape
FairBytes == {1, START_WRITE, END_WRITE, ESCAPE}

\* the link delivers the bytes of an arbitrary stream over FairBytes, one at a
\* time, each after the one before it was read
LinkDeliverFair ==
    /\ pc = "read_loop"
    /\ link = << >>
    /\ Len(rx_log) < MaxRx
    /\ \E b \in FairBytes : link' = << b >>
    /\ UNCHANGED << registers, pc, call, prev_byte, receiving_data, escape_next,
                    data, rx_log, device_payload, sent, outcome, ncalls >>
    /\ UNCHANGED << gen, sweep >>

InitFair ==
    /\ registers \in { s \in OneRegSchemas : s[1].length = 8 }
    /\ InitCommon

NextFair == StartRead \/ LinkDeliverFair \/ RecvByte \/ ReadTimeout

\* ser.read(1) hands over the byte at the head of the link: the steps of
\* NextFair that shorten the link are the steps of RecvByte, and one is
\* possible exactly when RecvByte is
SerReadByte ==
    /\ pc = "read_loop"
    /\ link # << >>
    /\ link' = Tail(link)

\* the receive loop is the running thread and ser.read(1) comes back within
\* its timeout of one second, with a byte if one is there: an iteration that
\* can be made is made
SpecDecoderFair ==
    InitFair /\ [][NextFair]_vars /\ WF_link(SerReadByte) /\ WF_vars(ReadTimeout)

---------------------------------------------------------------------------
(* Definitions the claims are stated with *)

\* the out registers of a schema
OutRegs(regs) == { regs[i] : i \in { j \in 1..Len(regs) : regs[j].mode = "out" } }

\* the register of a name
RegByName(regs, n) == CHOOSE r \in { regs[i] : i \in 1..Len(regs) } : r.name = n

\* ceil(n / 8)
CeilDiv8(n) == IF n % 8 = 0 THEN n \div 8 ELSE (n \div 8) + 1

\* the bit pattern of v in a register of `length` bits (two's complement)
Pattern(v, length) == v % Pow2(length)

\* the signed reading of a bit pattern p of `length` bits
SignedOf(p, length) == IF p >= Pow2(length - 1) THEN p - Pow2(length) ELSE p

\* the value a register carries in a bit pattern, by its data type
ValueOf(reg, p) == IF reg.data_type = "signed" THEN SignedOf(p, reg.length) ELSE p

\* v is outside the range of reg
Violates(reg, v) ==
    IF reg.data_type = "signed"
    THEN v < -Pow2(reg.length - 1) \/ v >= Pow2(reg.length - 1)
    ELSE v < 0 \/ v >= Pow2(reg.length)

RECURSIVE WidthFrom(_, _, _)
\* the summed widths of the registers of one mode declared at index i or later
WidthFrom(regs, mode, i) ==
    IF i > Len(regs) THEN 0
    ELSE (IF regs[i].mode = mode THEN regs[i].length ELSE 0)
         + WidthFrom(regs, mode, i + 1)

\* the number of bytes of a mode's region
RegionBytes(regs, mode) == CeilDiv8(WidthFrom(regs, mode, 1))

\* the lowest bit position of register i in its region, bit 0 being the
\* region's least significant bit: the last-declared register is topmost
LowBit(regs, i) ==
    8 * RegionBytes(regs, regs[i].mode) - WidthFrom(regs, regs[i].mode, i)

RECURSIVE RegionValue(_, _, _)
\* the out region as one number: every out register's pattern at its place,
\* all other bits zero
RegionValue(regs, values, i) ==
    IF i > Len(regs) THEN 0
    ELSE (IF regs[i].mode = "out"
          THEN Pattern(values[regs[i].name], regs[i].length) * Pow2(LowBit(regs, i))
          ELSE 0)
         + RegionValue(regs, values, i + 1)

RECURSIVE NumToBytes(_, _)
\* the n bytes of a number, most significant first
NumToBytes(v, n) ==
    IF n = 0 THEN << >> ELSE Append(NumToBytes(v \div 256, n - 1), v % 256)

\* the out region the layout rule prescribes for a value set
LayoutRegion(regs, values) ==
    NumToBytes(RegionValue(regs, values, 1), RegionBytes(regs, "out"))

\* the field of register i cut out of the payload of a read: the out region
\* leads, the in region trails
FieldOf(regs, payload, i) ==
    LET ob == RegionBytes(regs, "out")
        region == IF regs[i].mode = "out" THEN SubSeq(payload, 1, ob)
                  ELSE SubSeq(payload, ob + 1, Len(payload))
    IN  (BitsToInt(BytesToBits(region)) \div Pow2(LowBit(regs, i)))
        % Pow2(regs[i].length)

\* the register values a payload of the expected length reports
Reported(regs, payload) ==
    [n \in AllNames(regs) |->
        LET i == CHOOSE j \in 1..Len(regs) : regs[j].name = n
        IN  ValueOf(regs[i], FieldOf(regs, payload, i))]

\* a write call has returned or raised
WriteOver == pc = "returned" /\ call.op = "write"

\* the write had to read the out registers back first
ReadBack == MissingValues(registers, call.write_values) # {}

\* the value set write_regs packed, in a write that got as far as packing
PackedValues ==
    IF ReadBack
    THEN MergeValues(call.write_values,
                     MissingValues(registers, call.write_values),
                     Unpack(registers, data))
    ELSE call.write_values

\* the write got as far as packing
Packing == WriteOver /\ (ReadBack => Len(data) = ExpectedBytes(registers))

\* what the call sent before its write frame
SentBeforeFrame == IF ReadBack THEN <<READ_REQ>> ELSE << >>

---------------------------------------------------------------------------
(* gen_uart_regs.py: the register arguments and the generated files *)

\* register arguments the generator is given, as the fields of
\* name=length[:mode[:type]]; "" stands for a part left out
ArgNames == {"a", "b"}
ArgLengths == {-1, 0, 1, 2, 8}
ArgModeTypes ==
    { <<"", "">>, <<"out", "">>, <<"in", "std_logic">>, <<"out", "signed">>,
      <<"inout", "">>, <<"in", "bit">> }

ArgSpecs ==
    { [name |-> n, length |-> l, mode |-> mt[1], type |-> mt[2]] :
          n \in ArgNames, l \in ArgLengths, mt \in ArgModeTypes }

\* mode_str and type_str with their defaults
ArgMode(value) == IF value.mode = "" THEN "in" ELSE value.mode

ArgType(value) ==
    IF value.type # "" THEN value.type
    ELSE IF value.length = 1 THEN "std_logic" ELSE "std_logic_vector"

RECURSIVE RegisterLoopAnyWidth(_, _)
RegisterLoopAnyWidth(values, regs) ==
    IF values = << >>
    THEN IF regs = << >>
         THEN [kind |-> "error", what |-> "no registers"]
         ELSE [kind |-> "registers", registers |-> regs]
    ELSE LET value == Head(values) IN
         IF \E i \in 1..Len(regs) : regs[i].name = value.name
         THEN [kind |-> "error", what |-> "name used twice"]
         ELSE IF value.length <= 0
         THEN [kind |-> "error", what |-> "length"]
         ELSE IF ArgMode(value) \notin {"in", "out"}
         THEN [kind |-> "error", what |-> "mode"]
         ELSE IF ArgType(value) \notin {"unsigned", "signed",
                                        "std_logic_vector", "std_logic"}
         THEN [kind |-> "error", what |-> "type"]
         ELSE RegisterLoopAnyWidth(Tail(values),
                  Append(regs, [name |-> value.name, mode |-> ArgMode(value),
                                length |-> value.length,
                                data_type |-> ArgType(value)]))

RECURSIVE RegisterLoop(_, _)
\* RegisterAction.__call__: the loop over the values with the list built so
\* far; parser.error at the first value that fails a check
RegisterLoop(values, regs) ==
    IF values = << >>
    THEN IF regs = << >>
         THEN [kind |-> "error", what |-> "no registers"]
         ELSE [kind |-> "registers", registers |-> regs]
    ELSE LET value == Head(values) IN
         IF \E i \in 1..Len(regs) : regs[i].name = value.name
         THEN [kind |-> "error", what |-> "name used twice"]
         ELSE IF value.length <= 0
         THEN [kind |-> "error", what |-> "length"]
         ELSE IF ArgMode(value) \notin {"in", "out"}
         THEN [kind |-> "error", what |-> "mode"]
         ELSE IF ArgType(value) \notin {"unsigned", "signed",
                                        "std_logic_vector", "std_logic"}
         THEN [kind |-> "error", what |-> "type"]
         ELSE IF ArgType(value) = "std_logic" /\ value.length # 1
         THEN [kind |-> "error", what |-> "std_logic length"]
         ELSE RegisterLoop(Tail(values),
                  Append(regs, [name |-> value.name, mode |-> ArgMode(value),
                                length |-> value.length,
                                data_type |-> ArgType(value)]))

RECURSIVE VhdlSliceLoop(_, _, _)
\* gen_vhdl_code: the loop over the registers that writes the slice
\* assignments, with its two running upper bounds; a register of length 1
\* gets the single index hi = lo
VhdlSliceLoop(regs, in_upper_bound, out_upper_bound) ==
    IF regs = << >> THEN << >>
    ELSE LET reg == Head(regs)
             upper == IF reg.mode = "in" THEN in_upper_bound
                      ELSE out_upper_bound
         IN  (reg.name :> [vector |-> IF reg.mode = "in" THEN "in_regs"
                                      ELSE "out_regs",
                           hi |-> upper, lo |-> upper - reg.length + 1])
             @@ VhdlSliceLoop(Tail(regs),
                    IF reg.mode = "in" THEN in_upper_bound - reg.length
                    ELSE in_upper_bound,
                    IF reg.mode = "in" THEN out_upper_bound
                    ELSE out_upper_bound - reg.length)

VhdlSlicesUnreversed(regs) ==
    VhdlSliceLoop(regs, PadTo8(SumLengths(regs, "in")) - 1,
                  PadTo8(SumLengths(regs, "out")) - 1)

\* gen_vhdl_code: the slice of in_regs or out_regs assigned to each register,
\* taken over reversed(registers) from the top of each vector
VhdlSlices(regs) ==
    VhdlSliceLoop(Reverse(regs), PadTo8(SumLengths(regs, "in")) - 1,
                  PadTo8(SumLengths(regs, "out")) - 1)

\* gen_vhdl_code: what uart_regs.vhd fixes of the layout
gen_vhdl_code(regs) ==
    [slices |-> VhdlSlices(regs),
     in_total_length |-> PadTo8(SumLengths(regs, "in")),
     out_total_length |-> PadTo8(SumLengths(regs, "out")),
     in_bytes |-> (PadTo8(SumLengths(regs, "in")) + 7) \div 8,
     out_bytes |-> (PadTo8(SumLengths(regs, "out")) + 7) \div 8]

\* nothing generated yet
NoVhdl == [slices |-> << >>]

\* the files the generator writes, in the order it writes them
GeneratedFiles ==
    << "generated/uart_regs.vhd", "generated/uart_regs.py",
       "generated/instantiation_template.vho" >>

\* parser.parse_args(): RegisterAction builds the register list or ends the
\* process with the parser's error
ParseArgs ==
    /\ gen.pc = "args"
    /\ LET parsed == RegisterLoop(gen.args, << >>) IN
       IF parsed.kind = "error"
       THEN /\ gen' = [gen EXCEPT !.pc = "error"]
            /\ outcome' = [kind |-> "parser_error", what |-> parsed.what]
            /\ UNCHANGED registers
       ELSE /\ gen' = [gen EXCEPT !.pc = "parsed"]
            /\ registers' = parsed.registers
            /\ UNCHANGED outcome
    /\ UNCHANGED << pc, call, prev_byte, receiving_data, escape_next, data,
                    link, rx_log, device_payload, sent, ncalls, sweep >>

\* the generator writes its next file from the parsed registers
WriteFile ==
    /\ gen.pc = "parsed"
    /\ LET n == Cardinality(gen.files) + 1 IN
       gen' = [gen EXCEPT !.files = @ \cup {GeneratedFiles[n]},
                          !.vhdl = IF n = 1 THEN gen_vhdl_code(registers)
                                   ELSE @,
                          !.pc = IF n = Len(GeneratedFiles)
                                 THEN "generated" ELSE "parsed"]
    /\ UNCHANGED << registers, pc, call, prev_byte, receiving_data,
                    escape_next, data, link, rx_log, device_payload, sent,
                    outcome, ncalls, sweep >>

InitSchema ==
    /\ registers = << >>
    /\ InitEngine
    /\ sweep = NoSweep
    /\ \E args \in SeqsUpTo(ArgSpecs, MaxRegs) :
          gen = [pc |-> "args", args |-> args, files |-> {},
                 vhdl |-> NoVhdl]

NextSchema == ParseArgs \/ WriteFile

SpecSchema == InitSchema /\ [][NextSchema]_vars

---------------------------------------------------------------------------
(* run_attack.py: the sweep over voltage and glitch length, the glitch loop of
   each sweep point and its thread t1 *)

\* the two registers run_attack.py writes; their widths are fixed by the FPGA
\* design and not by run_attack.py: one bit and eight bits are taken here
SweepRegisters ==
    << [name |-> "start_glitch", mode |-> "out", length |-> 1,
        data_type |-> "std_logic"],
       [name |-> "glitch_delay", mode |-> "out", length |-> 8,
        data_type |-> "unsigned"] >>

\* glitch lengths the sweep is run with: the default 0x30, and one that
\* does not fit the register
GlitchLengths == {48, 256}

\* the runs drawn, voltages in tenths of a volt: without --sweep the one point
\* of --voltage (default 4.0) and --glitch-length, with --sweep the points of
\* two np.linspace of num = 2
SweepPlans ==
    { [voltage_levels |-> << 40 >>, glitch_lengths |-> << g >>] :
          g \in GlitchLengths }
    \cup { [voltage_levels |-> << 33, 40 >>, glitch_lengths |-> << 16, 48 >>] }

\* class GlitchResult(IntEnum)
GlitchResult == [RESET |-> 0, UNLOCKED |-> 1, LOCKED |-> 2, UNKNOWN |-> 3]

\* a cell of np.empty(...) that nothing was stored in
Uninitialised == -1

\* values of int(np.mean(...)) over the samples of the logic analyzer
LockStates == {0, 1, 2}

\* a local of the sweep loop that is not bound
Unbound == -1

\* the cells of schmoo, by (volt_index, glitch_index)
Cells(plan) ==
    (0..(Len(plan.voltage_levels) - 1)) \X (0..(Len(plan.glitch_lengths) - 1))

\* voltage_level and glitch_length of the running iteration
voltage_level == sweep.voltage_levels[sweep.volt_index + 1]
glitch_length == sweep.glitch_lengths[sweep.glitch_index + 1]

\* the assignments of safely_set_supply_voltage, in the order of the code
SupplySteps ==
    << "master_off", "channel_off", "set_voltage", "channel_on", "master_on" >>

SupplyAfterVoltageFirst(supply, step, voltage) ==
    CASE step = "master_off"  -> [supply EXCEPT !.voltage = voltage]
      [] step = "channel_off" -> [supply EXCEPT !.master_enable = FALSE]
      [] step = "set_voltage" -> [supply EXCEPT !.positive_enabled = FALSE]
      [] step = "channel_on"  -> [supply EXCEPT !.positive_enabled = TRUE]
      [] step = "master_on"   -> [supply EXCEPT !.master_enable = TRUE]

\* the supply after one assignment of safely_set_supply_voltage
SupplyAfter(supply, step, voltage) ==
    CASE step = "master_off"  -> [supply EXCEPT !.master_enable = FALSE]
      [] step = "channel_off" -> [supply EXCEPT !.positive_enabled = FALSE]
      [] step = "set_voltage" -> [supply EXCEPT !.voltage = voltage]
      [] step = "channel_on"  -> [supply EXCEPT !.positive_enabled = TRUE]
      [] step = "master_on"   -> [supply EXCEPT !.master_enable = TRUE]

\* where the main thread goes on after an assignment of
\* safely_set_supply_voltage: the next one, or the return to the sweep loop
AfterSupplyStep(step) ==
    CASE step = "master_off"  -> "channel_off"
      [] step = "channel_off" -> "set_voltage"
      [] step = "set_voltage" -> "channel_on"
      [] step = "channel_on"  -> "master_on"
      [] step = "master_on"   -> "pre_sample"

ClassifyNoUnknown(s, d) ==
    IF s = 0 /\ d = 1 THEN GlitchResult.RESET
    ELSE IF s = 0 /\ d = 0 THEN GlitchResult.UNLOCKED
    ELSE GlitchResult.LOCKED

\* the if / elif chain on lock_state_value and lock_state_value_delayed
Classify(s, d) ==
    IF s = 0 /\ d = 1 THEN GlitchResult.RESET
    ELSE IF s = 0 /\ d = 0 THEN GlitchResult.UNLOCKED
    ELSE IF s = 1 /\ d = 1 THEN GlitchResult.LOCKED
    ELSE GlitchResult.UNKNOWN

\* the engine's variables, which only steps of write_regs and of the
\* transport change
engine_vars ==
    << registers, pc, call, prev_byte, receiving_data, escape_next, data,
       link, rx_log, device_payload, sent, outcome, ncalls >>

\* uart_regs.write_regs(write_values) called at one place of the loop
SweepWrite(at, write_values, then) ==
    /\ sweep.pc = at
    /\ WriteEnter(write_values, "api")
    /\ sweep' = [sweep EXCEPT !.pc = then,
                              !.writes = Append(@, write_values)]
    /\ UNCHANGED << ncalls, gen >>

\* prime the FPGA glitch signal
SweepPrime ==
    SweepWrite("prime_call",
               [n \in {"start_glitch", "glitch_delay"} |->
                   IF n = "start_glitch" THEN 0 ELSE glitch_length],
               "prime_wait")

\* reset the glitch signal
SweepReset ==
    SweepWrite("reset_call", [n \in {"start_glitch"} |-> 0], "reset_wait")

\* run the glitch attack
SweepAttack ==
    SweepWrite("attack_call", [n \in {"start_glitch"} |-> 1], "attack_wait")

\* where the loop goes on after a write_regs that returned
AfterWrite(at) ==
    IF at = "prime_wait" THEN "thread_start"
    ELSE IF at = "reset_wait" THEN "attack_call"
    ELSE "join"

\* write_regs is over: the loop goes on after a return; an exception is
\* caught nowhere and ends the main thread
SweepReturn ==
    /\ sweep.pc \in {"prime_wait", "reset_wait", "attack_wait"}
    /\ pc = "returned"
    /\ IF outcome.kind = "ok"
       THEN /\ CallEnds
            /\ sweep' = [sweep EXCEPT !.pc = AfterWrite(sweep.pc)]
            /\ UNCHANGED << registers, link, ncalls >>
       ELSE /\ sweep' = [sweep EXCEPT !.pc = "crashed"]
            /\ UNCHANGED engine_vars
    /\ UNCHANGED gen

\* t1 = threading.Thread(target=scope_start_acquisition, ...); t1.start()
ThreadStart ==
    /\ sweep.pc = "thread_start"
    /\ sweep' = [sweep EXCEPT !.pc = "loop_test", !.t1 = "alive"]
    /\ UNCHANGED << engine_vars, gen >>

SweepLoopTestUnchecked ==
    /\ sweep.pc = "loop_test"
    /\ \/ /\ sweep.round < MaxRounds
          /\ sweep' = [sweep EXCEPT !.pc = "reset_call", !.round = @ + 1]
       \/ /\ sweep.t1 # "alive"
          /\ sweep' = [sweep EXCEPT !.pc = "after_loop"]
    /\ UNCHANGED << engine_vars, gen >>

\* while t1.is_alive():
SweepLoopTest ==
    /\ sweep.pc = "loop_test"
    /\ IF sweep.t1 = "alive"
       THEN /\ sweep.round < MaxRounds
            /\ sweep' = [sweep EXCEPT !.pc = "reset_call", !.round = @ + 1]
       ELSE sweep' = [sweep EXCEPT !.pc = "after_loop"]
    /\ UNCHANGED << engine_vars, gen >>

\* t1.join(timeout=1): over when the thread has ended or the second has gone
SweepJoin ==
    /\ sweep.pc = "join"
    /\ sweep' = [sweep EXCEPT !.pc = "loop_test"]
    /\ UNCHANGED << engine_vars, gen >>

T1FinishWritesPort ==
    /\ sweep.t1 = "alive"
    /\ sweep' = [sweep EXCEPT !.t1 = "done"]
    /\ sent' = Append(sent, READ_REQ)
    /\ UNCHANGED << registers, pc, call, prev_byte, receiving_data,
                    escape_next, data, link, rx_log, device_payload, outcome,
                    ncalls, gen >>

\* thread t1, scope_start_acquisition: scope.single(...) has returned and the
\* thread ends; it was given the scope alone
T1Finish ==
    /\ sweep.t1 = "alive"
    /\ sweep' = [sweep EXCEPT !.t1 = "done"]
    /\ UNCHANGED << engine_vars, gen >>

\* one assignment of safely_set_supply_voltage(ad2_supply,
\* voltage=voltage_level)
SupplyStep ==
    /\ \E i \in 1..Len(SupplySteps) : sweep.pc = SupplySteps[i]
    /\ sweep' = [sweep EXCEPT
                    !.supply = SupplyAfter(@, sweep.pc, voltage_level),
                    !.pc = AfterSupplyStep(sweep.pc)]
    /\ UNCHANGED << engine_vars, gen >>

\* lock_state_pre_attack = get_lock_state(ad2_logic_analyzer)
PreSample ==
    /\ sweep.pc = "pre_sample"
    /\ \E v \in LockStates :
          sweep' = [sweep EXCEPT !.lock_state_pre_attack = v,
                                 !.pc = "prime_call"]
    /\ UNCHANGED << engine_vars, gen >>

\* lock_state_value = get_lock_state(ad2_logic_analyzer), after the loop
SampleLockState ==
    /\ sweep.pc = "after_loop"
    /\ \E v \in LockStates :
          sweep' = [sweep EXCEPT !.lock_state_value = v, !.pc = "delay"]
    /\ UNCHANGED << engine_vars, gen >>

\* time.sleep(0.5); lock_state_value_delayed = get_lock_state(...)
SampleDelayed ==
    /\ sweep.pc = "delay"
    /\ \E v \in LockStates :
          sweep' = [sweep EXCEPT !.lock_state_value_delayed = v,
                                 !.pc = "classify"]
    /\ UNCHANGED << engine_vars, gen >>

\* the iteration that follows the running one in the two nested for loops,
\* or none
LastPoint ==
    /\ sweep.glitch_index + 1 = Len(sweep.glitch_lengths)
    /\ sweep.volt_index + 1 = Len(sweep.voltage_levels)

\* the result is stored in schmoo[volt_index, glitch_index] and the for loops
\* go on; the locals of the iteration that ends are each assigned again
\* before they are read, and are shown unbound until then
SweepClassify ==
    /\ sweep.pc = "classify"
    /\ LET stored ==
              [sweep.schmoo EXCEPT ![<< sweep.volt_index, sweep.glitch_index >>] =
                  Classify(sweep.lock_state_value,
                           sweep.lock_state_value_delayed)]
       IN  IF LastPoint
           THEN sweep' = [sweep EXCEPT !.schmoo = stored, !.pc = "finished"]
           ELSE sweep' =
                  [sweep EXCEPT
                     !.schmoo = stored,
                     !.pc = SupplySteps[1],
                     !.glitch_index =
                        IF @ + 1 = Len(sweep.glitch_lengths) THEN 0 ELSE @ + 1,
                     !.volt_index =
                        IF sweep.glitch_index + 1 = Len(sweep.glitch_lengths)
                        THEN @ + 1 ELSE @,
                     !.t1 = "none",
                     !.round = 0,
                     !.writes = << >>,
                     !.lock_state_pre_attack = Unbound,
                     !.lock_state_value = Unbound,
                     !.lock_state_value_delayed = Unbound]
    /\ UNCHANGED << engine_vars, gen >>

\* the supply as the program finds it: nothing is known of its enables
SupplyStates ==
    [master_enable : BOOLEAN, positive_enabled : BOOLEAN, voltage : {0}]

InitSweep ==
    /\ registers = SweepRegisters
    /\ InitEngine
    /\ gen = NoGen
    /\ \E plan \in SweepPlans, supply \in SupplyStates :
          sweep = [pc |-> SupplySteps[1], t1 |-> "none", round |-> 0,
                   voltage_levels |-> plan.voltage_levels,
                   glitch_lengths |-> plan.glitch_lengths,
                   volt_index |-> 0, glitch_index |-> 0,
                   supply |-> supply,
                   lock_state_pre_attack |-> Unbound,
                   lock_state_value |-> Unbound,
                   lock_state_value_delayed |-> Unbound,
                   schmoo |-> [c \in Cells(plan) |-> Uninitialised],
                   writes |-> << >>]

NextSweep ==
    \/ SupplyStep \/ PreSample
    \/ SweepPrime \/ SweepReturn \/ ThreadStart \/ SweepLoopTest
    \/ SweepReset \/ SweepAttack \/ SweepJoin \/ T1Finish
    \/ SampleLockState \/ SampleDelayed \/ SweepClassify
    \/ RecvByte \/ ReadTimeout \/ DeviceRespond

SpecSweep == InitSweep /\ [][NextSweep]_vars

---------------------------------------------------------------------------
(* Claims *)

\* C1: for every payload, also the empty one and those holding control
\* values, the frame the write-side encoder makes of it, fed byte by byte to
\* a freshly started read_regs decoder, yields exactly that payload, and the
\* decoder stops on the last byte of the frame, not before.
C1_FrameRoundTrip ==
    (rx_log \o link # << >>) =>
        /\ rx_log \o link = FrameBytes(device_payload)
        /\ (link # << >>) => pc = "read_loop"
        /\ (link = << >>) => (pc = "returned" /\ data = device_payload)

C1_Witness ==
    /\ pc = "returned"
    /\ device_payload = <<READ_REQ, START_WRITE, END_WRITE, ESCAPE>>
    /\ data = device_payload
    /\ link = << >>

\* C2: unpacking the region bytes that packing made of in-range values gives
\* every register the value that was packed, negative signed values included.
C2_PackUnpackRoundTrip ==
    (WriteOver /\ ~ReadBack /\ outcome.kind = "ok") =>
        LET region == BitsToBytes(PackOut(registers, call.write_values).bits)
            in_region == Zeros(RegionBytes(registers, "in"))
            unpacked == Unpack(registers, region \o in_region)
        IN  /\ sent = FrameBytes(region)
            /\ \A n \in NamesOf(registers, "out") :
                   unpacked[n] = call.write_values[n]

\* C3: a START_WRITE received with no escape pending discards the payload
\* accumulated so far (stated here for a stream that began with START_WRITE,
\* so that all of the payload was accumulated inside a frame).
C3_StartWriteClearsPayload ==
    [][ ( /\ pc = "read_loop"
          /\ link # << >>
          /\ Head(link) = START_WRITE
          /\ ~escape_next
          /\ rx_log # << >>
          /\ rx_log[1] = START_WRITE )
        => data' = << >> ]_vars

\* C4: a START_WRITE received with no escape pending is a restart marker and
\* is never appended to the payload, also right after an escaped ESCAPE
\* (stated here for a stream that began with START_WRITE).
C4_UnescapedStartNeverAppended ==
    [][ ( /\ pc = "read_loop"
          /\ link # << >>
          /\ Head(link) = START_WRITE
          /\ ~escape_next
          /\ rx_log # << >>
          /\ rx_log[1] = START_WRITE )
        => data' # Append(data, START_WRITE) ]_vars

\* C5: with an escape pending, the next byte received, whatever its value,
\* is appended to the payload as one data byte, neither ends nor restarts the
\* frame, and leaves no escape pending.
C5_EscapedByteIsData ==
    [][ (pc = "read_loop" /\ link # << >> /\ escape_next)
        => /\ data' = Append(data, Head(link))
           /\ pc' = "read_loop"
           /\ ~escape_next' ]_vars

C5_Witness ==
    /\ pc = "returned"
    /\ rx_log = <<START_WRITE, ESCAPE, START_WRITE, END_WRITE>>
    /\ data = <<START_WRITE>>

\* C6: until the first START_WRITE of a read arrives, every byte received is
\* ignored: nothing is added to the payload, an ESCAPE arms no escape and an
\* END_WRITE does not end the frame.
C6_IgnoredBeforeStart ==
    ( /\ pc \in {"read_loop", "returned"}
      /\ call.op = "read"
      /\ \A i \in 1..Len(rx_log) : rx_log[i] # START_WRITE )
    => (data = << >> /\ ~escape_next /\ pc = "read_loop")

\* C7: packing yields exactly ceil(sum of the out widths / 8) bytes, the
\* last-declared out register in the most significant bits, each earlier one
\* in the next lower slice, the low filler bits zero.
C7_PackLayout ==
    (Packing /\ outcome.kind = "ok") =>
        sent = SentBeforeFrame \o FrameBytes(LayoutRegion(registers, PackedValues))

C7_Witness ==
    /\ WriteOver
    /\ outcome.kind = "ok"
    /\ Len(registers) = 2
    /\ registers[1] = [name |-> "a", mode |-> "out", length |-> 1,
                       data_type |-> "std_logic"]
    /\ registers[2].mode = "out" /\ registers[2].length = 8
    /\ call.write_values = ("a" :> 1) @@ ("b" :> 255)
    /\ sent = <<START_WRITE, 255, 128, END_WRITE>>

\* C8: packing ends in a ValueError naming register, width and value exactly
\* when some out register's value is outside its range, and then no write
\* frame is sent.
C8_RangeCheck ==
    Packing =>
        /\ (outcome.kind = "ValueError")
             <=> (\E r \in OutRegs(registers) : Violates(r, PackedValues[r.name]))
        /\ (outcome.kind = "ValueError") =>
             /\ \E r \in OutRegs(registers) :
                   /\ r.name = outcome.name
                   /\ r.length = outcome.length
                   /\ PackedValues[r.name] = outcome.value
                   /\ Violates(r, outcome.value)
             /\ sent = SentBeforeFrame

C8_Witness ==
    /\ WriteOver
    /\ outcome.kind = "ValueError"
    /\ outcome.value = 16
    /\ outcome.length = 4
    /\ RegByName(registers, outcome.name).data_type = "unsigned"
    /\ sent = << >>

\* C9: a write that omits an out register makes exactly one read, then
\* succeeds, and the frame it sends carries the packing of the values the
\* device reported, overridden by the supplied ones; also when the device
\* reports a negative value of a signed out register.
C9_ReadModifyWrite ==
    ( /\ WriteOver
      /\ ReadBack
      /\ Len(data) = ExpectedBytes(registers)
      /\ \A n \in DOMAIN call.write_values \cap NamesOf(registers, "out") :
             ~Violates(RegByName(registers, n), call.write_values[n]) )
    => LET merged == [n \in NamesOf(registers, "out") |->
                         IF n \in DOMAIN call.write_values
                         THEN call.write_values[n]
                         ELSE Reported(registers, data)[n]]
           frame == FrameBytes(LayoutRegion(registers, merged))
       IN  /\ outcome.kind \in {"ok", "IOError"}
           /\ outcome.kind = "ok" => sent = <<READ_REQ>> \o frame

\* C10: a read whose decoded payload is not ceil(outBits/8) + ceil(inBits/8)
\* bytes long ends in the length-mismatch IOError and returns no values; one
\* of exactly that length returns a value for every register of both modes.
C10_LengthCheck ==
    (pc = "returned" /\ call.op = "read") =>
        IF Len(data) # RegionBytes(registers, "out") + RegionBytes(registers, "in")
        THEN /\ outcome.kind = "IOError"
             /\ outcome.what = "length"
             /\ "values" \notin DOMAIN outcome
        ELSE /\ outcome.kind = "values"
             /\ DOMAIN outcome.values = AllNames(registers)

C10_Witness ==
    /\ pc = "returned"
    /\ call.op = "read"
    /\ Len(data) = ExpectedBytes(registers) - 1
    /\ outcome.kind = "IOError"

\* the call supplies a name that is no declared out register
ForeignName == DOMAIN call.write_values \ NamesOf(registers, "out") # {}

\* nothing has gone to or come from the transport in this call
NoTransportIO == sent = << >> /\ rx_log = << >>

SuppliedOutOfRange ==
    /\ call.op = "write"
    /\ \E n \in DOMAIN call.write_values \cap NamesOf(registers, "out") :
          Violates(RegByName(registers, n), call.write_values[n])

\* C12 as claimed: a write that supplies an out-of-range value does no
\* transport I/O at all, no READ_REQ sent and no byte received, also when the
\* supplied values are incomplete; it ends in ValueError.
C12_RangeErrorBeforeAnyIO ==
    (SuppliedOutOfRange /\ call.via = "api") =>
        /\ NoTransportIO
        /\ pc = "returned"
        /\ outcome.kind = "ValueError"

\* C12 as amended: a write that supplies an out-of-range value never sends a
\* byte of a write frame. With complete values it raises ValueError before
\* any transport I/O. With incomplete values the read-back comes first: one
\* READ_REQ is sent and the response decoded, and ValueError is raised only
\* after a read-back of the expected length (a read-back of another length
\* ends in the length IOError instead, a timeout in the exit).
C12_RangeErrorBeforeWriteFrame ==
    (SuppliedOutOfRange /\ call.via = "api") =>
        IF ReadBack
        THEN /\ sent = <<READ_REQ>>
             /\ pc = "returned" =>
                   IF Len(data) = RegionBytes(registers, "out")
                                  + RegionBytes(registers, "in")
                   THEN outcome.kind = "ValueError"
                   ELSE outcome.kind = "IOError" /\ outcome.what = "length"
        ELSE /\ NoTransportIO
             /\ pc = "returned"
             /\ outcome.kind = "ValueError"

\* a partial write with an out-of-range value that ended in ValueError after
\* its read-back
C12_Witness ==
    /\ SuppliedOutOfRange
    /\ ReadBack
    /\ pc = "returned"
    /\ outcome.kind = "ValueError"
    /\ sent = <<READ_REQ>>
    /\ rx_log # << >>

\* the read loop met a timeout
TimedOut == outcome.kind \in {"exit", "ReadTimeout"}

PackedInRange ==
    \A r \in OutRegs(registers) : ~Violates(r, PackedValues[r.name])

\* C14: a write whose frame the transport took only in part (it reported
\* fewer bytes written than the frame has) ends in the write IOError and
\* sends nothing after the part taken; a write the transport took in full
\* succeeds, and only such a write does.
C14_ShortWrite ==
    (Packing /\ PackedInRange) =>
        LET frame == FrameBytes(LayoutRegion(registers, PackedValues))
            taken == SubSeq(sent, Len(SentBeforeFrame) + 1, Len(sent))
        IN  /\ sent = SentBeforeFrame \o taken
            /\ taken = SubSeq(frame, 1, Len(taken))
            /\ IF Len(taken) < Len(frame)
               THEN /\ outcome.kind = "IOError"
                    /\ outcome.what = "write"
                    /\ outcome.bytes_written = Len(taken)
                    /\ outcome.expected = Len(frame)
               ELSE outcome.kind = "ok"

\* a write that came one byte short after its read-back
C14_Witness ==
    /\ WriteOver
    /\ ReadBack
    /\ outcome.kind = "IOError"
    /\ outcome.what = "write"
    /\ outcome.bytes_written = outcome.expected - 1
    /\ Len(sent) = outcome.expected

\* C15: the values a read returns are, for every signed register, the
\* two's-complement value of its bit field (negative when the top bit is
\* set), and for every other register the field's unsigned pattern.
C15_SignedUnpack ==
    (pc = "returned" /\ call.op = "read" /\ outcome.kind = "values") =>
        \A i \in 1..Len(registers) :
            outcome.values[registers[i].name]
                = ValueOf(registers[i], FieldOf(registers, data, i))

\* a byte with the value of one of the four control bytes
IsControl(b) == b \in {READ_REQ, START_WRITE, END_WRITE, ESCAPE}

\* how many of the first i bytes of p are control-valued
ControlsUpTo(p, i) == Cardinality({ j \in 1..i : IsControl(p[j]) })

\* where byte i of the payload stands in the frame
PosInFrame(p, i) == 1 + i + ControlsUpTo(p, i)

\* C17: the frame made of a payload of n bytes, k of them control-valued, is
\* n + k + 2 bytes long, begins with START_WRITE and ends with END_WRITE;
\* the payload bytes stand in it in their order, each control-valued one
\* right after an ESCAPE, every other one after its predecessor with nothing
\* in between.
C17_FrameShape ==
    (rx_log \o link # << >>) =>
        LET frame == rx_log \o link
            p == device_payload
            n == Len(p)
        IN  /\ Len(frame) = n + ControlsUpTo(p, n) + 2
            /\ frame[1] = START_WRITE
            /\ frame[Len(frame)] = END_WRITE
            /\ \A i \in 1..n :
                  /\ frame[PosInFrame(p, i)] = p[i]
                  /\ IF IsControl(p[i])
                     THEN /\ frame[PosInFrame(p, i) - 1] = ESCAPE
                          /\ PosInFrame(p, i) - 2 = PosInFrame(p, i - 1)
                     ELSE PosInFrame(p, i) - 1 = PosInFrame(p, i - 1)

\* a frame of a payload with control-valued and ordinary bytes
C17_Witness ==
    /\ device_payload = <<ESCAPE, 1, END_WRITE, START_WRITE>>
    /\ rx_log = << >>
    /\ link = <<START_WRITE, ESCAPE, ESCAPE, 1, ESCAPE, END_WRITE,
                ESCAPE, START_WRITE, END_WRITE>>

\* a read has returned values
ReadValues == pc = "returned" /\ call.op = "read" /\ outcome.kind = "values"

\* the bytes of the payload from index lo to index hi, as one number
BytesValue(payload, lo, hi) == BitsToInt(BytesToBits(SubSeq(payload, lo, hi)))

\* C18: a read takes the leading ceil(outBits/8) bytes of the payload as the
\* out region and the trailing ceil(inBits/8) bytes as the in region; the
\* two regions do not overlap and make up the whole payload; the bit pattern
\* returned for a register is a field of the region of its own direction,
\* which is also the slice the code cuts for a direction that has registers.
\* All of it also with no out register or no in register (a region of no
\* bytes, from which nothing is read).
C18_RegionSplit ==
    ReadValues =>
        LET ob == CeilDiv8(WidthFrom(registers, "out", 1))
            ib == CeilDiv8(WidthFrom(registers, "in", 1))
            n  == Len(data)
        IN  /\ n = ob + ib
            /\ SubSeq(data, 1, ob) \o SubSeq(data, n - ib + 1, n) = data
            /\ NamesOf(registers, "out") # {} =>
                  out_regs_bits(registers, data)
                      = BytesToBits(SubSeq(data, 1, ob))
            /\ NamesOf(registers, "in") # {} =>
                  in_regs_bits(registers, data)
                      = BytesToBits(SubSeq(data, n - ib + 1, n))
            /\ \A i \in 1..Len(registers) :
                  LET own == IF registers[i].mode = "out"
                             THEN BytesValue(data, 1, ob)
                             ELSE BytesValue(data, n - ib + 1, n)
                  IN  outcome.values[registers[i].name]
                          = (own \div Pow2(LowBit(registers, i)))
                            % Pow2(registers[i].length)

\* a read of a schema with registers of both directions whose two regions
\* hold different bytes
C18_Witness ==
    /\ ReadValues
    /\ NamesOf(registers, "out") # {}
    /\ NamesOf(registers, "in") # {}
    /\ data = <<13, 176>>

\* C19: a read that follows a failed transaction returns exactly the values
\* of the one well-formed frame of the expected length that the device
\* answers with, also when bytes left over from the failed transaction are
\* received before the frame's START_WRITE.
C19_CleanStartAfterFailure ==
    ( /\ pc = "returned"
      /\ call.op = "read"
      /\ ncalls > 1
      /\ rx_log = PyHead(rx_log, Len(rx_log) - Len(FrameBytes(device_payload)))
                  \o FrameBytes(device_payload)
      /\ Len(device_payload) = ExpectedBytes(registers) )
    => /\ outcome.kind = "values"
       /\ data = device_payload
       /\ outcome.values = Unpack(registers, device_payload)

\* the arguments repeat a name, give a width of zero or less, or give type
\* std_logic with a width other than one
BadArgs ==
    \/ \E i, j \in 1..Len(gen.args) : i # j /\ gen.args[i].name = gen.args[j].name
    \/ \E i \in 1..Len(gen.args) : gen.args[i].length <= 0
    \/ \E i \in 1..Len(gen.args) :
          gen.args[i].type = "std_logic" /\ gen.args[i].length # 1

\* C20: a register list that repeats a name, has a width of zero or less, or
\* declares std_logic with a width other than 1 is rejected with the
\* parser's error and no file is written; a list that is accepted has none
\* of the three, and files are written only for an accepted list.
C20_SchemaRejected ==
    /\ (BadArgs /\ gen.pc # "args") =>
          /\ gen.pc = "error"
          /\ outcome.kind = "parser_error"
          /\ gen.files = {}
          /\ registers = << >>
    /\ gen.pc \in {"parsed", "generated"} =>
          /\ ~BadArgs
          /\ Len(registers) = Len(gen.args)
          /\ \A i \in 1..Len(registers) :
                /\ registers[i].name = gen.args[i].name
                /\ registers[i].length = gen.args[i].length
                /\ registers[i].length > 0
                /\ registers[i].data_type = "std_logic" => registers[i].length = 1
                /\ \A j \in 1..Len(registers) :
                      registers[j].name = registers[i].name => j = i
    /\ gen.files # {} => gen.pc \in {"parsed", "generated"}

\* a list rejected only because its second register is a std_logic of width 2
C20_Witness ==
    /\ gen.pc = "error"
    /\ gen.files = {}
    /\ Len(gen.args) = 2
    /\ gen.args[1] = [name |-> "a", length |-> 1, mode |-> "out", type |-> ""]
    /\ gen.args[2] = [name |-> "b", length |-> 2, mode |-> "in",
                      type |-> "std_logic"]

\* C16: at most one transaction is under way on the transport. A step that
\* sends bytes either starts a call when none is under way, or is the step
\* in which the read-back of a partial write has been decoded to its
\* unescaped END_WRITE, and then what it sends follows the one READ_REQ of
\* that read-back; and the step in which the acquisition thread of the glitch
\* loop ends changes nothing of the engine or the transport.
C16_OneTransaction ==
    /\ [][ (sent' # sent /\ sent' # << >>) =>
              \/ pc = "idle" /\ sent = << >>
              \/ /\ pc = "read_loop" /\ pc' = "returned"
                 /\ call.op = "write"
                 /\ sent = <<READ_REQ>>
                 /\ SubSeq(sent', 1, 1) = sent
                 /\ rx_log'[Len(rx_log')] = END_WRITE
                 /\ ~receiving_data'
                 /\ Len(data') = ExpectedBytes(registers) ]_vars
    /\ [][ sweep'.t1 # sweep.t1 => UNCHANGED engine_vars ]_vars

\* the acquisition thread has ended while the main thread is in the middle of
\* decoding a read-back
C16_Witness ==
    /\ sweep.t1 = "done"
    /\ sweep.pc = "attack_wait"
    /\ pc = "read_loop"
    /\ sent = <<READ_REQ>>
    /\ rx_log # << >>
    /\ link # << >>

\* the bits of a region of total bits that are 1 exactly at the vector
\* indices lo..hi, index total - 1 being the first bit of the first byte
SliceMask(total, hi, lo) ==
    [p \in 1..total |-> IF lo <= total - p /\ total - p <= hi THEN 1 ELSE 0]

\* the value whose pattern is all ones in a register
AllOnes(reg) == IF reg.data_type = "signed" THEN -1 ELSE Pow2(reg.length) - 1

\* the payload that is 1 exactly in the slice uart_regs.vhd gives register i
SlicePayload(i) ==
    LET sl == gen.vhdl.slices[registers[i].name]
        out_mask == IF sl.vector = "out_regs"
                    THEN SliceMask(gen.vhdl.out_total_length, sl.hi, sl.lo)
                    ELSE Zeros(gen.vhdl.out_total_length)
        in_mask == IF sl.vector = "in_regs"
                   THEN SliceMask(gen.vhdl.in_total_length, sl.hi, sl.lo)
                   ELSE Zeros(gen.vhdl.in_total_length)
    IN  BitsToBytes(out_mask) \o BitsToBytes(in_mask)

\* C21: for every accepted register list, the slice hi downto lo that
\* uart_regs.vhd assigns to a register in the vector of its direction holds
\* the bits that write_regs fills with the register's value and that
\* read_regs takes the register's value from (index total - 1 being the first
\* bit of the region's first byte), and the byte counts of the two regions
\* in uart_regs.vhd are those the host code computes.
C21_LayoutAgrees ==
    ("generated/uart_regs.vhd" \in gen.files) =>
        /\ ExpectedBytes(registers) = gen.vhdl.in_bytes + gen.vhdl.out_bytes
        /\ Len(PackOut(registers, [n \in AllNames(registers) |-> 0]).bits)
               = 8 * gen.vhdl.out_bytes
        /\ \A i \in 1..Len(registers) :
              LET reg == registers[i]
                  sl == gen.vhdl.slices[reg.name]
                  ones == [n \in AllNames(registers) |->
                              IF n = reg.name THEN AllOnes(reg) ELSE 0]
              IN  /\ sl.vector = IF reg.mode = "in" THEN "in_regs"
                                 ELSE "out_regs"
                  /\ sl.hi - sl.lo + 1 = reg.length
                  /\ reg.mode = "out" =>
                        PackOut(registers, ones).bits
                            = SliceMask(gen.vhdl.out_total_length, sl.hi, sl.lo)
                  /\ Unpack(registers, SlicePayload(i))
                        = [n \in AllNames(registers) |->
                              IF n = reg.name THEN Pow2(reg.length) - 1 ELSE 0]

\* the files of two out registers of 1 and 8 bits, which share a region of
\* two bytes
C21_Witness ==
    /\ gen.pc = "generated"
    /\ Len(registers) = 2
    /\ registers[1].mode = "out" /\ registers[1].length = 1
    /\ registers[2].mode = "out" /\ registers[2].length = 8
    /\ gen.vhdl.slices["b"] = [vector |-> "out_regs", hi |-> 15, lo |-> 8]
    /\ gen.vhdl.slices["a"] = [vector |-> "out_regs", hi |-> 7, lo |-> 7]

\* C22: in a frame with no escape pending, a received END_WRITE ends the
\* receive loop and leaves the payload as it was, END_WRITE not appended, and
\* what read_regs then checks and unpacks is that payload; a received ESCAPE
\* adds nothing to the payload and arms the escape, which the next byte
\* received takes away again. No step adds to the payload anything but the
\* byte received, so a byte received as an unescaped ESCAPE or END_WRITE is
\* never in the payload.
C22_EndAndEscape ==
    [][ (pc = "read_loop" /\ link # << >>) =>
          LET byte == Head(link) IN
          /\ rx_log' = Append(rx_log, byte)
          /\ data' = data \/ data' = Append(data, byte)
          /\ (receiving_data /\ ~escape_next /\ byte = END_WRITE) =>
                /\ pc' = "returned"
                /\ data' = data
                /\ outcome' = ReadResult(registers, data)
          /\ (receiving_data /\ ~escape_next /\ byte = ESCAPE) =>
                /\ pc' = "read_loop"
                /\ data' = data
                /\ escape_next'
          /\ escape_next => ~escape_next' ]_vars

\* a read that met an escaped END_WRITE, a plain byte and the END_WRITE that
\* ended it
C22_Witness ==
    /\ pc = "returned"
    /\ rx_log = <<START_WRITE, ESCAPE, END_WRITE, 1, END_WRITE>>
    /\ data = <<END_WRITE, 1>>
    /\ ~escape_next

\* the call is a write_regs that was given a value for every out register
CompleteWrite ==
    /\ call.op = "write"
    /\ pc # "exited"
    /\ NamesOf(registers, "out") \subseteq DOMAIN call.write_values

RECURSIVE Unstuff(_)
\* a stuffed byte sequence without its escapes
Unstuff(bytes) ==
    IF bytes = << >> THEN << >>
    ELSE IF Head(bytes) = ESCAPE /\ Len(bytes) > 1
    THEN <<bytes[2]>> \o Unstuff(SubSeq(bytes, 3, Len(bytes)))
    ELSE <<Head(bytes)>> \o Unstuff(Tail(bytes))

\* C23: a write that supplies a value for every out register does no read:
\* it sends no READ_REQ and receives no byte; when it succeeds, all it has
\* sent is one frame, whose payload is ceil(outBits/8) bytes long, and when
\* it fails, a part of that frame or nothing.
C23_CompleteWriteNoRead ==
    CompleteWrite =>
        /\ pc = "returned"
        /\ rx_log = << >>
        /\ data = << >>
        /\ outcome.kind \in {"ok", "IOError", "ValueError"}
        /\ outcome.kind = "ValueError" => sent = << >>
        /\ outcome.kind = "IOError" =>
              /\ outcome.what = "write"
              /\ Len(sent) = outcome.bytes_written
              /\ sent = << >> \/ sent[1] = START_WRITE
        /\ outcome.kind = "ok" =>
              /\ sent[1] = START_WRITE
              /\ sent[Len(sent)] = END_WRITE
              /\ Len(Unstuff(SubSeq(sent, 2, Len(sent) - 1)))
                     = CeilDiv8(WidthFrom(registers, "out", 1))
              /\ FrameBytes(Unstuff(SubSeq(sent, 2, Len(sent) - 1))) = sent

\* a complete write of two out registers that succeeded with a frame of two
\* payload bytes
C23_Witness ==
    /\ CompleteWrite
    /\ Cardinality(NamesOf(registers, "out")) = 2
    /\ outcome.kind = "ok"
    /\ WidthFrom(registers, "out", 1) = 9
    /\ Len(sent) >= 4
    /\ rx_log = << >>

\* what the merge should hold after a read-back whose payload is p: the
\* supplied entries as supplied, and for every out register not supplied the
\* value read_regs returned for it (the bit field's pattern)
MergedFrom(write_values, p) ==
    [n \in DOMAIN write_values \cup NamesOf(registers, "out") |->
        IF n \in DOMAIN write_values THEN write_values[n]
        ELSE LET i == CHOOSE j \in 1..Len(registers) : registers[j].name = n
             IN  FieldOf(registers, p, i)]

\* C24: no step of a write changes the mapping the caller passed in, whether
\* the write then succeeds or fails; and the merged value set holds every
\* supplied entry with its supplied value and, for exactly the out registers
\* not supplied, the value read from the device.
C24_MergeKeepsSupplied ==
    [][ /\ (call.op = "write" /\ call'.op = "write") =>
               call'.write_values = call.write_values
        /\ (call'.op = "write" /\ call'.merged) =>
               call'.complete_write_values
                   = MergedFrom(call'.write_values, data') ]_vars

\* a partial write that was merged with the read-back and then failed in the
\* range check of a supplied value
C24_Witness ==
    /\ WriteOver
    /\ call.merged
    /\ DOMAIN call.write_values # DOMAIN call.complete_write_values
    /\ outcome.kind = "ValueError"
    /\ outcome.name \in DOMAIN call.write_values

\* C25: with a receive operation that always comes back, with a byte or
\* with a timeout, every read ends, in a result, an IOError or the exit of
\* the timeout. The receive loop is left in no other way than by a timeout
\* or by an END_WRITE received with no escape pending: however many bytes
\* the payload holds, more than the schema has or not, the loop goes on.
C25_ReadTerminates ==
    /\ (pc = "read_loop") ~> (pc \in {"returned", "exited"})
    /\ [][ (pc = "read_loop" /\ pc' # "read_loop") =>
              \/ /\ pc' = "exited"
                 /\ link = << >>
              \/ /\ pc' = "returned"
                 /\ link # << >>
                 /\ Head(link) = END_WRITE
                 /\ ~escape_next ]_vars
    /\ [][ (pc = "read_loop" /\ link # << >>
            /\ ~(Head(link) = END_WRITE /\ ~escape_next)) =>
              /\ pc' = "read_loop"
              /\ Len(data') >= Len(data) ]_vars

\* the loop still runs with a payload of two bytes more than the schema has
\* and a further byte waiting
C25_Witness ==
    /\ pc = "read_loop"
    /\ Len(data) >= ExpectedBytes(registers) + 2
    /\ link # << >>

\* C29: in the receive loop a pending escape implies that the byte received
\* before was ESCAPE. The converse fails: an ESCAPE received with an escape
\* pending is appended as data and leaves prev_byte = ESCAPE with no escape
\* pending, so the test made for START_WRITE (prev_byte) and the test made
\* for END_WRITE (escape_next) disagree on the byte that follows.
C29_EscapeNextImpliesPrevEscape ==
    /\ [](escape_next => prev_byte = ESCAPE)
    /\ [][ (pc = "read_loop" /\ link # << >> /\ Head(link) = ESCAPE
            /\ escape_next) =>
              /\ pc' = "read_loop"
              /\ data' = Append(data, ESCAPE)
              /\ prev_byte' = ESCAPE
              /\ ~escape_next' ]_vars

\* an escaped ESCAPE was just appended and a START_WRITE or an END_WRITE
\* follows: prev_byte says escaped, escape_next says not
C29_Witness ==
    /\ pc = "read_loop"
    /\ prev_byte = ESCAPE
    /\ ~escape_next
    /\ data # << >>
    /\ data[Len(data)] = ESCAPE
    /\ link # << >>
    /\ Head(link) \in {START_WRITE, END_WRITE}

\* the write_regs calls of the running sweep point are, in order, the prime
\* write and then start_glitch = 0 and start_glitch = 1 in turn
WritesInOrder(writes) ==
    \A i \in 1..Len(writes) :
        writes[i] =
            IF i = 1 THEN [start_glitch |-> 0, glitch_delay |-> glitch_length]
            ELSE IF i % 2 = 0 THEN [start_glitch |-> 0]
            ELSE [start_glitch |-> 1]

\* C26: at every sweep point the write_regs calls are the prime write
\* (start_glitch = 0 with the glitch length) and then rounds of a write of
\* start_glitch = 0 directly followed by a write of start_glitch = 1, so
\* every start_glitch = 1 comes right after a start_glitch = 0 and whole
\* rounds have been written whenever the loop condition is tested or the
\* loop is over; a round is entered only on a test that finds the
\* acquisition thread alive; and the lock state after the attack is sampled
\* only when that thread has ended.
C26_WriteOrder ==
    /\ [](WritesInOrder(sweep.writes))
    /\ [](sweep.pc \in {"loop_test", "after_loop", "delay", "classify"} =>
             Len(sweep.writes) = 1 + 2 * sweep.round)
    /\ [][ sweep'.round > sweep.round => sweep.t1 = "alive" ]_vars
    /\ [][ sweep'.lock_state_value # sweep.lock_state_value =>
              \/ sweep.t1 = "done" /\ sweep.pc = "after_loop"
              \/ sweep'.lock_state_value = Unbound ]_vars
    /\ [](sweep.pc \in {"after_loop", "delay", "classify"} =>
             sweep.t1 = "done")

\* two rounds were written at the second voltage of a sweep, and the lock
\* state has been sampled after the loop
C26_Witness ==
    /\ sweep.pc = "delay"
    /\ sweep.volt_index = 1
    /\ sweep.round = 2
    /\ Len(sweep.writes) = 5
    /\ sweep.writes[5] = [start_glitch |-> 1]
    /\ sweep.t1 = "done"

\* C27: safely_set_supply_voltage assigns the voltage of the positive
\* supply only while the master enable and the enable of the positive
\* channel are both off; when it returns both are on and the voltage is the
\* requested one; and the master enable goes on when the channel enable is
\* on already.
C27_SupplySequence ==
    /\ [](sweep.pc = "set_voltage" =>
             ~sweep.supply.master_enable /\ ~sweep.supply.positive_enabled)
    /\ [][ sweep'.supply.voltage # sweep.supply.voltage =>
              /\ sweep.pc = "set_voltage"
              /\ ~sweep.supply.master_enable /\ ~sweep.supply.positive_enabled
              /\ ~sweep'.supply.master_enable /\ ~sweep'.supply.positive_enabled
          ]_vars
    /\ [](sweep.pc = "pre_sample" =>
             sweep.supply = [master_enable |-> TRUE, positive_enabled |-> TRUE,
                             voltage |-> voltage_level])
    /\ [][ (~sweep.supply.master_enable /\ sweep'.supply.master_enable) =>
              sweep.supply.positive_enabled ]_vars

\* the second voltage of a sweep has been set, with both enables off, on a
\* supply that the sweep point before left switched on
C27_Witness ==
    /\ sweep.pc = "channel_on"
    /\ sweep.volt_index = 1
    /\ sweep.supply = [master_enable |-> FALSE, positive_enabled |-> FALSE,
                       voltage |-> 40]
    /\ sweep.schmoo[<< 0, 1 >>] # Uninitialised

\* the result named for the two samples
ResultTable(s, d) ==
    CASE s = 0 /\ d = 1 -> GlitchResult.RESET
      [] s = 0 /\ d = 0 -> GlitchResult.UNLOCKED
      [] s = 1 /\ d = 1 -> GlitchResult.LOCKED
      [] OTHER          -> GlitchResult.UNKNOWN

\* C28: the result of a sweep point is RESET when the lock state was 0
\* right after the attack (s) and 1 after the delay (d), UNLOCKED when both
\* were 0, LOCKED when both were 1 and UNKNOWN otherwise, s = 1 and d = 0
\* included; it is stored in the cell of schmoo at the indices of the point,
\* which nothing was stored in before, and no other cell changes; when the
\* sweep is over every cell holds a result.
C28_ResultMatrix ==
    /\ [][ sweep.pc = "classify" =>
              LET c == << sweep.volt_index, sweep.glitch_index >> IN
              /\ sweep.schmoo[c] = Uninitialised
              /\ sweep'.schmoo[c] = ResultTable(sweep.lock_state_value,
                                                sweep.lock_state_value_delayed)
              /\ \A o \in DOMAIN sweep.schmoo \ {c} :
                     sweep'.schmoo[o] = sweep.schmoo[o] ]_vars
    /\ [][ sweep'.schmoo # sweep.schmoo => sweep.pc = "classify" ]_vars
    /\ [](sweep.pc = "finished" =>
             \A c \in DOMAIN sweep.schmoo :
                 sweep.schmoo[c] \in { GlitchResult.RESET, GlitchResult.UNLOCKED,
                                       GlitchResult.LOCKED, GlitchResult.UNKNOWN })

\* a sweep of four points is over; its last point gave s = 1 and d = 0 and
\* is UNKNOWN, another one is RESET
C28_Witness ==
    /\ sweep.pc = "finished"
    /\ DOMAIN sweep.schmoo = (0..1) \X (0..1)
    /\ sweep.lock_state_value = 1
    /\ sweep.lock_state_value_delayed = 0
    /\ sweep.schmoo[<< 1, 1 >>] = GlitchResult.UNKNOWN
    /\ sweep.schmoo[<< 0, 1 >>] = GlitchResult.RESET

====
